---- MODULE Spec2Model ----
(***************************************************************************)
(* Model of the options leverage optimizer's CalculationService            *)
(* (src/src/controllers/calculationService.ts).                            *)
(*                                                                         *)
(* Numbers.  A JavaScript number is modelled as a pair <<n, d>>:           *)
(*   d > 0       the rational n/d in lowest terms (exact arithmetic);      *)
(*   <<1, 0>>    +Infinity,  <<-1, 0>>  -Infinity,  <<0, 0>>  NaN.         *)
(* The operators below follow IEEE-754 on the special values.  Rounding of *)
(* finite results and the sign of zero are not modelled: finite arithmetic *)
(* is exact, and no divisor in the service can be zero.                    *)
(***************************************************************************)
EXTENDS Integers, Sequences, FiniteSets, TLC

VARIABLES contracts, stock, inputs, numberOfContracts, result, results, optimal, op,
          userInputs, optionsData, calculationResults, loading, error, showResults,
          pending

vars == <<contracts, stock, inputs, numberOfContracts, result, results, optimal, op,
          userInputs, optionsData, calculationResults, loading, error, showResults,
          pending>>

\* the arguments and the values returned by the calculation service
calcVars == <<contracts, stock, inputs, numberOfContracts, result, results, optimal>>

\* the state of AppProvider and the fetch awaited by fetchAndCalculate
ctrlVars == <<userInputs, optionsData, calculationResults, loading, error, showResults,
              pending>>

----------------------------------------------------------------------------
(* Number representation *)

RECURSIVE GCD(_, _)
GCD(a, b) == IF b = 0 THEN a ELSE GCD(b, a % b)

AbsInt(n) == IF n < 0 THEN -n ELSE n

SignInt(n) == IF n < 0 THEN -1 ELSE IF n > 0 THEN 1 ELSE 0

NaN == <<0, 0>>
PosInf == <<1, 0>>
NegInf == <<-1, 0>>

\* n/d for d > 0, in lowest terms
Rat(n, d) == LET g == GCD(AbsInt(n), d) IN <<n \div g, d \div g>>

Num(n) == <<n, 1>>

Zero == <<0, 1>>

IsNaN(x) == x = NaN

IsFinite(x) == x[2] > 0

IsInf(x) == x[2] = 0 /\ x[1] # 0

\* sign of a non-NaN number
Sign(x) == SignInt(x[1])

Neg(x) == <<-x[1], x[2]>>

Abs(x) == <<AbsInt(x[1]), x[2]>>

Add(x, y) ==
    IF IsNaN(x) \/ IsNaN(y) THEN NaN
    ELSE IF IsInf(x) /\ IsInf(y) THEN (IF x = y THEN x ELSE NaN)
    ELSE IF IsInf(x) THEN x
    ELSE IF IsInf(y) THEN y
    ELSE LET g == GCD(x[2], y[2])
             l == (x[2] \div g) * y[2]
         IN  Rat(x[1] * (l \div x[2]) + y[1] * (l \div y[2]), l)

Sub(x, y) == Add(x, Neg(y))

Mul(x, y) ==
    IF IsNaN(x) \/ IsNaN(y) THEN NaN
    ELSE IF IsInf(x) \/ IsInf(y)
         THEN (IF Sign(x) * Sign(y) = 0 THEN NaN ELSE <<Sign(x) * Sign(y), 0>>)
    ELSE LET g1 == GCD(AbsInt(x[1]), y[2])
             g2 == GCD(AbsInt(y[1]), x[2])
         IN  << (x[1] \div g1) * (y[1] \div g2), (x[2] \div g2) * (y[2] \div g1) >>

Div(x, y) ==
    IF IsNaN(x) \/ IsNaN(y) THEN NaN
    ELSE IF IsInf(y) THEN (IF IsInf(x) THEN NaN ELSE Zero)
    ELSE IF y[1] = 0 THEN (IF Sign(x) = 0 THEN NaN ELSE <<Sign(x), 0>>)
    ELSE IF IsInf(x) THEN <<Sign(x) * Sign(y), 0>>
    ELSE Mul(x, <<SignInt(y[1]) * y[2], AbsInt(y[1])>>)

\* x < y; false when either side is NaN
Lt(x, y) ==
    IF IsNaN(x) \/ IsNaN(y) THEN FALSE
    ELSE IF IsInf(x) \/ IsInf(y)
         THEN (IF IsInf(x) /\ IsInf(y) THEN x[1] < y[1]
               ELSE IF IsInf(x) THEN x[1] < 0
               ELSE y[1] > 0)
    ELSE x[1] * y[2] < y[1] * x[2]

Gt(x, y) == Lt(y, x)

\* x === y on numbers: NaN equals nothing
Eq(x, y) == ~IsNaN(x) /\ ~IsNaN(y) /\ x = y

Le(x, y) == Lt(x, y) \/ Eq(x, y)

Ge(x, y) == Le(y, x)

\* !x on a number: true for 0 and NaN
Falsy(x) == x = Zero \/ IsNaN(x)

\* Math.floor and Math.ceil
Floor(x) == IF IsFinite(x) THEN Num(x[1] \div x[2]) ELSE x

\* variant: rounds up past the next integer
CeilPlusOne(x) == IF IsFinite(x) THEN Add(Floor(x), Num(2)) ELSE x

Ceil(x) == IF IsFinite(x) THEN Num(-((-x[1]) \div x[2])) ELSE x

IsInteger(x) == IsFinite(x) /\ x[2] = 1

----------------------------------------------------------------------------
(* CalculationService: the allocator *)

\* one contract controls 100 shares
ContractMultiplier == 100

\* the 0.01 tolerance of the denominator and budget checks
Tolerance == Rat(1, 100)

Null == [isNull |-> TRUE]

Undefined == "undefined"

MsgInvalidInput == "Invalid input values"
MsgContractCost == "Contract cost exceeds available equity"
MsgNegativeShares == "Negative shares required (not supported)"
MsgNaN == "Calculation produced invalid values"
MsgDenominator == "Invalid calculation: denominator too close to zero"
MsgShort == "Cannot achieve desired leverage (requires short position)"
MsgTotalCost == "Total cost exceeds available equity"

\* variant: an invalid result never reports a contract count
InvalidZeroed(contract, C, totalCost, msg) ==
    [contract |-> contract, numberOfContracts |-> Zero, numberOfShares |-> Zero,
     totalCost |-> totalCost, leverage |-> Zero, leverageDifference |-> Zero,
     deltaExposure |-> Zero, isValid |-> FALSE, validationMessage |-> msg]

\* a CalculationResult with isValid: false
Invalid(contract, C, totalCost, msg) ==
    [contract |-> contract, numberOfContracts |-> C, numberOfShares |-> Zero,
     totalCost |-> totalCost, leverage |-> Zero, leverageDifference |-> Zero,
     deltaExposure |-> Zero, isValid |-> FALSE, validationMessage |-> msg]

\* variant: the premium is not validated
InvalidInputsButPremium(S, O, D, T, L) ==
    \/ Falsy(S) \/ Le(S, Zero)
    \/ Falsy(D) \/ Le(D, Zero)
    \/ Falsy(T) \/ Le(T, Zero)
    \/ Falsy(L) \/ Le(L, Zero)

\* the input validation shared by both solvers
InvalidInputs(S, O, D, T, L) ==
    \/ Falsy(S) \/ Le(S, Zero)
    \/ Falsy(O) \/ Le(O, Zero)
    \/ Falsy(D) \/ Le(D, Zero)
    \/ Falsy(T) \/ Le(T, Zero)
    \/ Falsy(L) \/ Le(L, Zero)

\* variant: only whole shares are bought
wholeSharesForRemainingEquity(T, contractCost, S) == Floor(Div(Sub(T, contractCost), S))

\* N = (T - O*C) / S: all the remaining equity buys shares
sharesForRemainingEquity(T, contractCost, S) == Div(Sub(T, contractCost), S)

\* variant: a cost equal to the equity is rejected too
costReachesEquity(contractCost, T) == Ge(contractCost, T)

\* contractCost > T
costExceedsEquity(contractCost, T) == Gt(contractCost, T)

calculateWithContracts(contract, stockPrice, totalEquity, leverage, numContracts) ==
    LET S == stockPrice
        O == Mul(contract.premium, Num(ContractMultiplier))
        D == Mul(contract.delta, Num(ContractMultiplier))
        T == totalEquity
        L == leverage
        C == numContracts
        contractCost == Mul(O, C)
        N == sharesForRemainingEquity(T, contractCost, S)
        totalCost == Add(Mul(S, N), Mul(O, C))
        deltaExposure == Add(N, Mul(D, C))
        actualLeverage == Div(Mul(deltaExposure, S), T)
        leverageDifference == Abs(Sub(actualLeverage, L))
    IN  IF InvalidInputs(S, O, D, T, L)
          THEN Invalid(contract, Zero, Zero, MsgInvalidInput)
        ELSE IF costExceedsEquity(contractCost, T)
          THEN Invalid(contract, C, contractCost, MsgContractCost)
        ELSE IF Lt(N, Zero)
          THEN Invalid(contract, C, contractCost, MsgNegativeShares)
        ELSE IF IsNaN(N) \/ IsNaN(C) \/ IsNaN(totalCost) \/ IsNaN(actualLeverage)
                \/ IsNaN(deltaExposure)
          THEN Invalid(contract, C, Zero, MsgNaN)
        ELSE [contract |-> contract, numberOfContracts |-> C, numberOfShares |-> N,
              totalCost |-> totalCost, leverage |-> actualLeverage,
              leverageDifference |-> leverageDifference,
              deltaExposure |-> deltaExposure, isValid |-> TRUE,
              validationMessage |-> Undefined]

\* variant: the whole target exposure is bought with contracts
exactContractsFullLeverage(T, L, denominator) == Div(Mul(T, L), denominator)

\* C = T*(L - 1) / (S*D - O)
exactContracts(T, L, denominator) == Div(Mul(T, Sub(L, Num(1))), denominator)

\* variant: the leverage factor is dropped from the share count
exactSharesUnleveraged(L, T, S, D, C) == Sub(Div(T, S), Mul(D, C))

\* N = L*T/S - D*C
exactShares(L, T, S, D, C) == Sub(Div(Mul(L, T), S), Mul(D, C))

\* variant: only an exactly zero denominator is rejected
denominatorIsZero(denominator) == Eq(denominator, Zero)

\* Math.abs(denominator) < 0.01
denominatorTooSmall(denominator) == Lt(Abs(denominator), Tolerance)

\* variant: an allocation without shares is rejected too
sharesNotPositive(N) == Le(N, Zero)

\* N < 0
sharesNegative(N) == Lt(N, Zero)

\* variant: a total cost equal to the equity is rejected too
totalCostReachesEquity(totalCost, T) == Ge(totalCost, T)

\* totalCost > T + 0.01
totalCostExceedsEquity(totalCost, T) == Gt(totalCost, Add(T, Tolerance))

calculateForOption(contract, stockPrice, totalEquity, leverage) ==
    LET S == stockPrice
        O == Mul(contract.premium, Num(ContractMultiplier))
        D == Mul(contract.delta, Num(ContractMultiplier))
        T == totalEquity
        L == leverage
        denominator == Sub(Mul(S, D), O)
        C == exactContracts(T, L, denominator)
        N == exactShares(L, T, S, D, C)
        totalCost == Add(Mul(S, N), Mul(O, C))
        deltaExposure == Add(N, Mul(D, C))
        actualLeverage == Div(Mul(deltaExposure, S), T)
        leverageDifference == Abs(Sub(actualLeverage, L))
    IN  IF InvalidInputs(S, O, D, T, L)
          THEN Invalid(contract, Zero, Zero, MsgInvalidInput)
        ELSE IF denominatorTooSmall(denominator)
          THEN Invalid(contract, Zero, Zero, MsgDenominator)
        ELSE IF Lt(C, Zero)
          THEN Invalid(contract, Zero, Zero, MsgShort)
        ELSE IF sharesNegative(N)
          THEN Invalid(contract, Zero, Zero, MsgNegativeShares)
        ELSE IF IsNaN(N) \/ IsNaN(C) \/ IsNaN(totalCost) \/ IsNaN(actualLeverage)
                \/ IsNaN(deltaExposure)
          THEN Invalid(contract, Zero, Zero, MsgNaN)
        ELSE IF totalCostExceedsEquity(totalCost, T)
          THEN [contract |-> contract, numberOfContracts |-> C, numberOfShares |-> N,
                totalCost |-> totalCost, leverage |-> actualLeverage,
                leverageDifference |-> leverageDifference,
                deltaExposure |-> deltaExposure, isValid |-> FALSE,
                validationMessage |-> MsgTotalCost]
        ELSE [contract |-> contract, numberOfContracts |-> C, numberOfShares |-> N,
              totalCost |-> totalCost, leverage |-> actualLeverage,
              leverageDifference |-> leverageDifference,
              deltaExposure |-> deltaExposure, isValid |-> TRUE,
              validationMessage |-> Undefined]

----------------------------------------------------------------------------
(* CalculationService: the optimizer *)

\* variant: the type of the contract is not looked at
passesFilterAnyType(contract, in) ==
    /\ contract.expiry = in.selectedExpiry
    /\ Ge(contract.delta, in.deltaMin)
    /\ Le(contract.delta, in.deltaMax)

\* variant: the bounds of the delta range are exclusive
passesFilterExclusive(contract, in) ==
    /\ contract.expiry = in.selectedExpiry
    /\ Gt(contract.delta, in.deltaMin)
    /\ Lt(contract.delta, in.deltaMax)
    /\ contract.type = "call"

\* the filter on expiry, delta range and type
passesFilter(contract, in) ==
    /\ contract.expiry = in.selectedExpiry
    /\ Ge(contract.delta, in.deltaMin)
    /\ Le(contract.delta, in.deltaMax)
    /\ contract.type = "call"

\* the guard of the floor candidate
floorWanted(floorContracts) == Gt(floorContracts, Zero)

\* variant: the ceiling is not compared with the floor
ceilingPositive(ceilingContracts, floorContracts) == Gt(ceilingContracts, Zero)

\* the guard of the ceiling candidate
ceilingWanted(ceilingContracts, floorContracts) ==
    ~Eq(ceilingContracts, floorContracts) /\ Gt(ceilingContracts, Zero)

\* variant: a candidate is pushed without looking at isValid
pushedUnchecked(r) == IF Gt(r.numberOfContracts, Zero) THEN <<r>> ELSE <<>>

\* a computed candidate is pushed when valid with a positive contract count
pushed(r) == IF r.isValid /\ Gt(r.numberOfContracts, Zero) THEN <<r>> ELSE <<>>

\* the body of the forEach: the results one filtered contract pushes, in order
candidatesFor(contract, stk, in) ==
    LET exactResult == calculateForOption(contract, stk.price, in.totalEquity, in.leverage)
        exact == exactResult.numberOfContracts
        floorContracts == Floor(exact)
        ceilingContracts == Ceil(exact)
        floorPart ==
            IF floorWanted(floorContracts)
            THEN pushed(calculateWithContracts(contract, stk.price, in.totalEquity,
                                               in.leverage, floorContracts))
            ELSE <<>>
        ceilingPart ==
            IF ceilingWanted(ceilingContracts, floorContracts)
            THEN pushed(calculateWithContracts(contract, stk.price, in.totalEquity,
                                               in.leverage, ceilingContracts))
            ELSE <<>>
    IN  IF exactResult.isValid THEN floorPart \o ceilingPart ELSE <<>>

\* variant: no tiebreaker on the leverage difference
compareContractsOnly(a, b) == Sub(a.numberOfContracts, b.numberOfContracts)

\* the comparator handed to results.sort
compareResults(a, b) ==
    LET contractDiff == Sub(a.numberOfContracts, b.numberOfContracts)
    IN  IF ~Eq(contractDiff, Zero) THEN contractDiff
        ELSE Sub(a.leverageDifference, b.leverageDifference)

\* x placed before the first element that compares greater than x
\* variant: the results stay in the order they were generated in
generationOrder(rs) == rs

RECURSIVE InsertSorted(_, _)
InsertSorted(sorted, x) ==
    IF sorted = <<>> THEN <<x>>
    ELSE IF Gt(compareResults(Head(sorted), x), Zero) THEN <<x>> \o sorted
    ELSE <<Head(sorted)>> \o InsertSorted(Tail(sorted), x)

\* Array.prototype.sort with the comparator: a stable sort
RECURSIVE SortResults(_)
SortResults(rs) ==
    IF rs = <<>> THEN <<>>
    ELSE InsertSorted(SortResults(SubSeq(rs, 1, Len(rs) - 1)), rs[Len(rs)])

\* the results pushed by the forEach over the filtered contracts, before sorting
RECURSIVE collectResults(_, _, _)
collectResults(filtered, stk, in) ==
    IF filtered = <<>> THEN <<>>
    ELSE candidatesFor(Head(filtered), stk, in) \o collectResults(Tail(filtered), stk, in)

filteredContracts(cs, in) == SelectSeq(cs, LAMBDA c : passesFilter(c, in))

calculateAllOptions(cs, stk, in) ==
    SortResults(collectResults(filteredContracts(cs, in), stk, in))

\* variant: zero-contract results are not filtered out
isValidOnly(r) == r.isValid

\* the filter of getOptimalContract
isRankable(r) == r.isValid /\ Gt(r.numberOfContracts, Zero)

getOptimalContract(rs) ==
    LET validResults == SelectSeq(rs, isRankable)
    IN  IF Len(validResults) = 0 THEN Null ELSE validResults[1]

----------------------------------------------------------------------------
(* Inputs *)

E1 == "2025-11-15"
E2 == "2025-12-20"

Contract(symbol, premium, delta, expiry, type) ==
    [strike |-> Num(1), expiry |-> expiry, premium |-> premium, delta |-> delta,
     symbol |-> symbol, type |-> type]

\* premiums, per share: 100 * premium is 2, 5, 4.995, 4.99, 0, -1, +Infinity
Premiums == {Rat(1, 50), Rat(1, 20), Rat(999, 20000), Rat(499, 10000), Zero,
             Rat(-1, 100), PosInf}

Deltas == {Rat(3, 10), Rat(1, 2), Zero, PosInf}

Prices == {Rat(1, 10), Rat(1, 5), Zero, PosInf}

Equities == {Num(10), Num(20), Num(-10), NaN}

Leverages == {Rat(3, 4), Num(1), Rat(7, 4), Num(3), Zero, PosInf}

ContractCounts == {Num(-1), Zero, Num(1), Num(2), Rat(5, 2), Num(6), NaN, PosInf, NegInf}

\* the contract universe handed to calculateAllOptions
Catalogue ==
    { Contract("A", Rat(1, 50), Rat(1, 2), E1, "call"),
      Contract("A2", Rat(1, 50), Rat(1, 2), E1, "call"),
      Contract("B", Rat(1, 20), Rat(1, 2), E1, "call"),
      Contract("C", Rat(1, 50), Rat(3, 10), E1, "call"),
      Contract("D", Rat(1, 50), Rat(1, 2), E2, "call"),
      Contract("P", Rat(1, 50), Rat(1, 2), E1, "put"),
      Contract("Z", Zero, Rat(1, 2), E1, "call"),
      Contract("H", Rat(1, 100), Rat(9, 10), E1, "call") }

DeltaRanges == { <<Rat(3, 10), Rat(9, 10)>>, <<Rat(2, 5), Rat(3, 5)>> }

\* longest contract list
MaxContracts == 2

\* longest result list handed to getOptimalContract directly
MaxResults == 3

SeqsUpTo(S, n) == UNION { [1..k -> S] : k \in 0..n }

UserInputs(T, L, expiry, range) ==
    [totalEquity |-> T, leverage |-> L, selectedExpiry |-> expiry,
     deltaMin |-> range[1], deltaMax |-> range[2]]

\* hand-built results, as the tests of getOptimalContract build them
SampleResults ==
    { [contract |-> Contract("A", Rat(1, 50), Rat(1, 2), E1, "call"),
       numberOfContracts |-> Num(c), numberOfShares |-> Num(40), totalCost |-> Num(10),
       leverage |-> Rat(7, 4), leverageDifference |-> g, deltaExposure |-> Num(100),
       isValid |-> v, validationMessage |-> IF v THEN Undefined ELSE MsgNaN]
      : c \in 0..2, g \in {Rat(3, 100), Rat(3, 20)}, v \in BOOLEAN }

-----------------------------------------------------------------------------
(* The controller: the state of AppProvider, the handlers of the input form
   and the two operations of useOptionsController.  Amounts are in the units
   of the catalogue above. *)

defaultUserInputs ==
    [totalEquity |-> Num(10), leverage |-> Rat(7, 4), selectedExpiry |-> "",
     deltaMin |-> Rat(3, 10), deltaMax |-> Rat(9, 10), stockSymbol |-> "AAPL"]

MsgNoSymbol == "Please enter a stock symbol"
MsgNoEquity == "Total equity must be greater than 0"
MsgNoLeverage == "Leverage must be greater than 0"
MsgFetchFailed == "No quote data found for symbol"
NoError == "null"

\* the state AppProvider starts in
CtrlIdle ==
    /\ userInputs = defaultUserInputs
    /\ optionsData = Null
    /\ calculationResults = <<>>
    /\ loading = FALSE
    /\ error = NoError
    /\ showResults = FALSE
    /\ pending = <<>>

\* no call of the calculation service has been made
CalcIdle ==
    /\ contracts = <<>>
    /\ stock = [price |-> Rat(1, 10)]
    /\ inputs = UserInputs(Num(10), Rat(7, 4), E1, <<Zero, Num(1)>>)
    /\ numberOfContracts = Zero
    /\ result = Null
    /\ results = <<>>
    /\ optimal = Null

\* what ApiService.fetchOptionsChain can resolve to
OptionsChain(price, cs, dates) ==
    [stock |-> [price |-> price], contracts |-> cs, expiryDates |-> dates]

Chains ==
    { OptionsChain(Rat(1, 5),
                   << Contract("A", Rat(1, 50), Rat(1, 2), E1, "call"),
                      Contract("D", Rat(1, 50), Rat(1, 2), E2, "call") >>,
                   <<E1, E2>>),
      OptionsChain(Rat(1, 10),
                   << Contract("B", Rat(1, 20), Rat(1, 2), E2, "call") >>,
                   <<E2>>) }

\* the values the fields of the form can be set to
SymbolValues == {"", "AAPL"}
EquityValues == {Zero, Num(10), Num(14)}
LeverageValues == {Zero, Rat(7, 4), Num(3)}
DeltaMinValues == {Rat(3, 10), Rat(2, 5)}
DeltaMaxValues == {Rat(3, 5), Rat(9, 10)}

\* the parameters calculateAllOptions reads from the user inputs
paramsOf(ui) ==
    UserInputs(ui.totalEquity, ui.leverage, ui.selectedExpiry, <<ui.deltaMin, ui.deltaMax>>)

\* setUserInputs(prev => ({ ...prev, [key]: value }))
updateUserInput(ui, key, value) == [ui EXCEPT ![key] = value]

\* variant: the leverage is not validated
validationErrorButLeverage(ui) ==
    IF ui.stockSymbol = "" THEN MsgNoSymbol
    ELSE IF Le(ui.totalEquity, Zero) THEN MsgNoEquity
    ELSE NoError

\* the message of the error thrown by the validation of fetchAndCalculate,
\* NoError when it passes
validationError(ui) ==
    IF ui.stockSymbol = "" THEN MsgNoSymbol
    ELSE IF Le(ui.totalEquity, Zero) THEN MsgNoEquity
    ELSE IF Le(ui.leverage, Zero) THEN MsgNoLeverage
    ELSE NoError

\* the results recalculate stores for the data and the inputs it is given
recalculated(data, ui) ==
    IF ui.selectedExpiry = "" THEN <<>>
    ELSE calculateAllOptions(data.contracts, data.stock, paramsOf(ui))

\* the results fetchAndCalculate stores once the fetch has resolved
fetchedResults(data, ui) ==
    IF ui.selectedExpiry = "" /\ Len(data.expiryDates) > 0 THEN <<>>
    ELSE calculateAllOptions(data.contracts, data.stock, paramsOf(ui))

\* the fetches that may be awaited at a time
MaxInFlight == 2

\* variant: the controls stay enabled while loading
alwaysEnabled == TRUE

\* disabled={appContext.loading} on every control of the form
controlsEnabled == ~loading

\* variant: handleFetchData leaves showResults as it is
resultsShownKept == showResults

\* setShowResults(false) in handleFetchData
resultsShownOnFetch == FALSE

\* variant: recalculate leaves the error as it is
errorKept == error

\* setError(null) in recalculate
errorOnRecalculate == NoError

InitController ==
    /\ CalcIdle
    /\ CtrlIdle
    /\ op = "init"

\* the symbol field: onChange
ChangeStockSymbol ==
    /\ controlsEnabled
    /\ \E v \in SymbolValues :
          /\ v # userInputs.stockSymbol
          /\ userInputs' = updateUserInput(userInputs, "stockSymbol", v)
    /\ op' = "changeStockSymbol"
    /\ UNCHANGED <<optionsData, calculationResults, loading, error, showResults, pending>>
    /\ UNCHANGED calcVars

\* the expiry, equity, leverage and delta fields: onChange.  They are
\* rendered once options data is there and disabled while loading.
ChangeParameter ==
    /\ controlsEnabled
    /\ optionsData # Null
    /\ \/ \E v \in { optionsData.expiryDates[i] : i \in DOMAIN optionsData.expiryDates } :
             /\ v # userInputs.selectedExpiry
             /\ userInputs' = updateUserInput(userInputs, "selectedExpiry", v)
       \/ \E v \in EquityValues :
             /\ v # userInputs.totalEquity
             /\ userInputs' = updateUserInput(userInputs, "totalEquity", v)
       \/ \E v \in LeverageValues :
             /\ v # userInputs.leverage
             /\ userInputs' = updateUserInput(userInputs, "leverage", v)
       \/ \E v \in DeltaMinValues :
             /\ v # userInputs.deltaMin
             /\ userInputs' = updateUserInput(userInputs, "deltaMin", v)
       \/ \E v \in DeltaMaxValues :
             /\ v # userInputs.deltaMax
             /\ userInputs' = updateUserInput(userInputs, "deltaMax", v)
    /\ op' = "changeParameter"
    /\ UNCHANGED <<optionsData, calculationResults, loading, error, showResults, pending>>
    /\ UNCHANGED calcVars

\* the search button and the Enter key of the symbol field: handleFetchData,
\* and fetchAndCalculate up to its await.  pending holds, for every fetch
\* awaited, the user inputs its closure captured.
HandleFetchData ==
    /\ controlsEnabled
    /\ Len(pending) < MaxInFlight
    /\ showResults' = resultsShownOnFetch
    /\ IF validationError(userInputs) # NoError
       THEN /\ error' = validationError(userInputs)
            /\ loading' = FALSE
            /\ pending' = pending
       ELSE /\ error' = NoError
            /\ loading' = TRUE
            /\ pending' = Append(pending, userInputs)
    /\ op' = "handleFetchData"
    /\ UNCHANGED <<userInputs, optionsData, calculationResults>>
    /\ UNCHANGED calcVars

\* the sequence seq without its i-th element
Without(seq, i) == SubSeq(seq, 1, i - 1) \o SubSeq(seq, i + 1, Len(seq))

\* fetchAndCalculate after the await: the fetch resolved
FetchResolved ==
    /\ \E i \in DOMAIN pending, data \in Chains :
          /\ optionsData' = data
          /\ calculationResults' = fetchedResults(data, pending[i])
          /\ pending' = Without(pending, i)
    /\ loading' = FALSE
    /\ op' = "fetchResolved"
    /\ UNCHANGED <<userInputs, error, showResults>>
    /\ UNCHANGED calcVars

\* variant: the catch block leaves loading as it is
loadingKept == TRUE

\* setLoading(false) in the catch block
loadingAfterCatch == FALSE

\* fetchAndCalculate after the await: the fetch rejected
FetchRejected ==
    /\ \E i \in DOMAIN pending : pending' = Without(pending, i)
    /\ error' = MsgFetchFailed
    /\ loading' = loadingAfterCatch
    /\ op' = "fetchRejected"
    /\ UNCHANGED <<userInputs, optionsData, calculationResults, showResults>>
    /\ UNCHANGED calcVars

\* the show-results button: handleShowResults and recalculate
HandleShowResults ==
    /\ controlsEnabled
    /\ userInputs.selectedExpiry # ""
    /\ IF optionsData # Null /\ userInputs.selectedExpiry # ""
       THEN /\ error' = errorOnRecalculate
            /\ calculationResults' = recalculated(optionsData, userInputs)
            /\ showResults' = TRUE
       ELSE UNCHANGED <<error, calculationResults, showResults>>
    /\ op' = "handleShowResults"
    /\ UNCHANGED <<userInputs, optionsData, loading, pending>>
    /\ UNCHANGED calcVars

\* recalculate called on its own, as the hook exposes it: the states it is
\* called in and the options data it is handed
InitRecalculate ==
    /\ CalcIdle
    /\ userInputs \in { [defaultUserInputs EXCEPT !.selectedExpiry = e, !.leverage = L] :
                          e \in {"", E1, E2}, L \in LeverageValues }
    /\ optionsData \in {Null} \cup Chains
    /\ calculationResults \in SeqsUpTo(SampleResults, 1)
    /\ loading \in BOOLEAN
    /\ error \in {NoError, MsgFetchFailed}
    /\ showResults \in BOOLEAN
    /\ pending = IF loading THEN <<userInputs>> ELSE <<>>
    /\ userInputs.selectedExpiry # "" => optionsData # Null
    /\ showResults => (optionsData # Null /\ ~loading)
    /\ op = "init"

Recalculate ==
    /\ \E data \in {Null} \cup Chains :
          IF data = Null
          THEN /\ UNCHANGED <<error, calculationResults>>
               /\ op' = "recalculate(null)"
          ELSE /\ error' = errorOnRecalculate
               /\ calculationResults' = recalculated(data, userInputs)
               /\ op' = "recalculate"
    /\ UNCHANGED <<userInputs, optionsData, loading, showResults, pending>>
    /\ UNCHANGED calcVars

SpecRecalculate == InitRecalculate /\ [][Recalculate]_vars

NextController ==
    \/ ChangeStockSymbol
    \/ ChangeParameter
    \/ HandleFetchData
    \/ FetchResolved
    \/ FetchRejected
    \/ HandleShowResults

\* an awaited fetch settles: the request resolves, rejects or times out.
\* FetchResolved and FetchRejected are the steps that shorten pending.
FetchSettles == \E i \in DOMAIN pending : pending' = Without(pending, i)

SpecController == InitController /\ [][NextController]_vars /\ WF_pending(FetchSettles)

----------------------------------------------------------------------------
(* The allocator applied to one contract *)

InitAlloc ==
    /\ contracts \in { <<Contract("A", p, d, E1, "call")>> : p \in Premiums, d \in Deltas }
    /\ stock \in [price : Prices]
    /\ inputs \in { UserInputs(T, L, E1, <<Zero, Num(1)>>) : T \in Equities, L \in Leverages }
    /\ numberOfContracts \in ContractCounts
    /\ result = Null
    /\ results = <<>>
    /\ optimal = Null
    /\ op = "init"
    /\ CtrlIdle

CalculateForOption ==
    /\ result' = calculateForOption(contracts[1], stock.price, inputs.totalEquity,
                                    inputs.leverage)
    /\ op' = "calculateForOption"
    /\ UNCHANGED <<contracts, stock, inputs, numberOfContracts, results, optimal>>
    /\ UNCHANGED ctrlVars

CalculateWithContracts ==
    /\ result' = calculateWithContracts(contracts[1], stock.price, inputs.totalEquity,
                                        inputs.leverage, numberOfContracts)
    /\ op' = "calculateWithContracts"
    /\ UNCHANGED <<contracts, stock, inputs, numberOfContracts, results, optimal>>
    /\ UNCHANGED ctrlVars

NextAlloc == CalculateForOption \/ CalculateWithContracts

SpecAlloc == InitAlloc /\ [][NextAlloc]_vars

----------------------------------------------------------------------------
(* The optimizer: calculateAllOptions on a contract universe, and          *)
(* getOptimalContract on its output or on any list a caller hands it       *)

InitAll ==
    /\ contracts \in SeqsUpTo(Catalogue, MaxContracts)
    /\ stock \in [price : {Rat(1, 10), Rat(1, 5)}]
    /\ inputs \in { UserInputs(T, L, e, r) :
                      T \in {Num(10), Num(14)},
                      L \in {Num(1), Rat(7, 4), Num(3)},
                      e \in {E1}, r \in DeltaRanges }
    /\ numberOfContracts = Zero
    /\ result = Null
    /\ results = <<>>
    /\ optimal = Null
    /\ op = "init"
    /\ CtrlIdle

InitPick ==
    /\ contracts = <<>>
    /\ stock = [price |-> Rat(1, 10)]
    /\ inputs = UserInputs(Num(10), Rat(7, 4), E1, <<Zero, Num(1)>>)
    /\ numberOfContracts = Zero
    /\ result = Null
    /\ results \in SeqsUpTo(SampleResults, MaxResults)
    /\ optimal = Null
    /\ op = "init"
    /\ CtrlIdle

InitOptimizer == InitAll \/ InitPick

CalculateAllOptions ==
    /\ results' = calculateAllOptions(contracts, stock, inputs)
    /\ op' = "calculateAllOptions"
    /\ UNCHANGED <<contracts, stock, inputs, numberOfContracts, result, optimal>>
    /\ UNCHANGED ctrlVars

GetOptimalContract ==
    /\ optimal' = getOptimalContract(results)
    /\ op' = "getOptimalContract"
    /\ UNCHANGED <<contracts, stock, inputs, numberOfContracts, result, results>>
    /\ UNCHANGED ctrlVars

NextOptimizer == CalculateAllOptions \/ GetOptimalContract

SpecOptimizer == InitOptimizer /\ [][NextOptimizer]_vars

----------------------------------------------------------------------------
(* Properties of the allocator (checked under SpecAlloc) *)

\* the arguments of the last allocator call
ArgS == stock.price
ArgO == Mul(contracts[1].premium, Num(ContractMultiplier))
ArgD == Mul(contracts[1].delta, Num(ContractMultiplier))
ArgT == inputs.totalEquity
ArgL == inputs.leverage

Solved == op \in {"calculateForOption", "calculateWithContracts"}

\* C1: every valid result of calculateForOption and of calculateWithContracts
\* spends the whole equity: |totalCost - totalEquity| <= 0.01.
FullDeployment ==
    (Solved /\ result.isValid) =>
        Le(Abs(Sub(result.totalCost, ArgT)), Tolerance)

\* a fixed-count solve that is valid with a fractional number of shares
FullDeploymentWitness ==
    /\ op = "calculateWithContracts"
    /\ result.isValid
    /\ Gt(result.numberOfContracts, Zero)
    /\ IsFinite(result.numberOfShares) /\ ~IsInteger(result.numberOfShares)

\* C2: a valid exact solve satisfies C*(S*D - O) = T*(L - 1) and
\* N = L*T/S - D*C, and with them both defining equations: S*N + O*C = T and
\* (N + D*C)*S/T = L, so the reported leverage is L and the leverage gap is 0.
ExactSolveEquations ==
    (op = "calculateForOption" /\ result.isValid) =>
        LET C == result.numberOfContracts
            N == result.numberOfShares
        IN  /\ Mul(C, Sub(Mul(ArgS, ArgD), ArgO)) = Mul(ArgT, Sub(ArgL, Num(1)))
            /\ Add(N, Mul(ArgD, C)) = Div(Mul(ArgL, ArgT), ArgS)
            /\ Add(Mul(ArgS, N), Mul(ArgO, C)) = ArgT
            /\ result.totalCost = ArgT
            /\ Mul(Add(N, Mul(ArgD, C)), ArgS) = Mul(ArgL, ArgT)
            /\ result.deltaExposure = Add(N, Mul(ArgD, C))
            /\ result.leverage = ArgL
            /\ result.leverageDifference = Zero

\* a valid exact solve with a fractional, positive number of contracts
ExactSolveWitness ==
    /\ op = "calculateForOption"
    /\ result.isValid
    /\ Gt(result.numberOfContracts, Zero) /\ ~IsInteger(result.numberOfContracts)
    /\ Gt(result.numberOfShares, Zero)

\* C8: every valid result of either solver has numberOfContracts >= 0 and
\* numberOfShares >= 0, whatever contract count calculateWithContracts is given.
NonNegativity ==
    (Solved /\ result.isValid) =>
        /\ Ge(result.numberOfContracts, Zero)
        /\ Ge(result.numberOfShares, Zero)

\* C9: every result of calculateWithContracts has a numberOfContracts that is
\* a non-negative integer.
IntegerContracts ==
    (op = "calculateWithContracts") =>
        /\ IsInteger(result.numberOfContracts)
        /\ Ge(result.numberOfContracts, Zero)

\* C10: for positive S, O, D, T, L with |S*D - O| < 0.01 the exact solve is
\* invalid with the denominator message (and reports no contracts or shares).
DegenerateDenominator ==
    (/\ op = "calculateForOption"
     /\ Gt(ArgS, Zero) /\ Gt(ArgO, Zero) /\ Gt(ArgD, Zero)
     /\ Gt(ArgT, Zero) /\ Gt(ArgL, Zero)
     /\ Lt(Abs(Sub(Mul(ArgS, ArgD), ArgO)), Tolerance))
    => /\ ~result.isValid
       /\ result.validationMessage = MsgDenominator
       /\ result.numberOfContracts = Zero
       /\ result.numberOfShares = Zero

\* a denominator that is not zero but within the tolerance
DegenerateDenominatorWitness ==
    /\ op = "calculateForOption"
    /\ result.validationMessage = MsgDenominator
    /\ Sub(Mul(ArgS, ArgD), ArgO) # Zero

\* a number that is zero, negative, NaN or infinite
NonPositiveOrNonFinite(x) == ~IsFinite(x) \/ x[1] <= 0

\* C11: when any of S, O, D, T, L is non-positive or non-finite, the exact
\* solve is invalid with the invalid-inputs message.
InvalidInputsRejected ==
    (/\ op = "calculateForOption"
     /\ \/ NonPositiveOrNonFinite(ArgS) \/ NonPositiveOrNonFinite(ArgO)
        \/ NonPositiveOrNonFinite(ArgD) \/ NonPositiveOrNonFinite(ArgT)
        \/ NonPositiveOrNonFinite(ArgL))
    => /\ ~result.isValid
       /\ result.validationMessage = MsgInvalidInput

\* the conditions of the edge-case policy, from the arguments of the call
CondInvalidInputs ==
    \/ NonPositiveOrNonFinite(ArgS) \/ NonPositiveOrNonFinite(ArgO)
    \/ NonPositiveOrNonFinite(ArgD) \/ NonPositiveOrNonFinite(ArgT)
    \/ NonPositiveOrNonFinite(ArgL)

PolicyDenominator == Sub(Mul(ArgS, ArgD), ArgO)

PolicyC == Div(Mul(ArgT, Sub(ArgL, Num(1))), PolicyDenominator)

PolicyN == Sub(Div(Mul(ArgL, ArgT), ArgS), Mul(ArgD, PolicyC))

PolicyTotalCost == Add(Mul(ArgS, PolicyN), Mul(ArgO, PolicyC))

CondDegenerate == Lt(Abs(PolicyDenominator), Tolerance)

CondShort == Lt(PolicyC, Zero)

CondNegativeShares == Lt(PolicyN, Zero)

CondNonFinite ==
    \/ IsNaN(PolicyC) \/ IsNaN(PolicyN) \/ IsNaN(PolicyTotalCost)
    \/ IsNaN(Add(PolicyN, Mul(ArgD, PolicyC)))
    \/ IsNaN(Div(Mul(Add(PolicyN, Mul(ArgD, PolicyC)), ArgS), ArgT))

CondExceedsBudget == Gt(PolicyTotalCost, Add(ArgT, Tolerance))

\* the message of the earliest condition that holds
EarliestReason ==
    IF CondInvalidInputs THEN MsgInvalidInput
    ELSE IF CondDegenerate THEN MsgDenominator
    ELSE IF CondShort THEN MsgShort
    ELSE IF CondNegativeShares THEN MsgNegativeShares
    ELSE IF CondNonFinite THEN MsgNaN
    ELSE IF CondExceedsBudget THEN MsgTotalCost
    ELSE Undefined

\* C12: the exact solve reports the reason of the earliest condition that
\* holds, in the order invalid inputs, degenerate denominator, C < 0, N < 0,
\* non-finite result, exceeds budget.
ReasonOrder ==
    (op = "calculateForOption") => result.validationMessage = EarliestReason

\* the same order over arguments that are all finite
ReasonOrderFinite ==
    (/\ op = "calculateForOption"
     /\ IsFinite(ArgS) /\ IsFinite(ArgO) /\ IsFinite(ArgD)
     /\ IsFinite(ArgT) /\ IsFinite(ArgL))
    => result.validationMessage = EarliestReason

PositiveArgs ==
    /\ Gt(ArgS, Zero) /\ Gt(ArgO, Zero) /\ Gt(ArgD, Zero)
    /\ Gt(ArgT, Zero) /\ Gt(ArgL, Zero)

FiniteArgs ==
    /\ IsFinite(ArgS) /\ IsFinite(ArgO) /\ IsFinite(ArgD)
    /\ IsFinite(ArgT) /\ IsFinite(ArgL) /\ IsFinite(numberOfContracts)

\* what the fixed-count solve is to return for positive arguments
FixedCountOutcome ==
    LET C == numberOfContracts
        cost == Mul(ArgO, C)
        N == Div(Sub(ArgT, cost), ArgS)
        exposure == Add(N, Mul(ArgD, C))
        achieved == Div(Mul(exposure, ArgS), ArgT)
    IN  IF Gt(cost, ArgT)
        THEN /\ ~result.isValid
             /\ result.validationMessage = MsgContractCost
        ELSE /\ result.isValid
             /\ result.numberOfShares = N
             /\ result.deltaExposure = exposure
             /\ result.leverage = achieved
             /\ result.leverageDifference = Abs(Sub(achieved, ArgL))

\* C13 as stated: for positive S, O, D, T, L the fixed-count solve is invalid
\* with the contract-cost message when O*C > T, and otherwise valid with
\* N = (T - O*C)/S, exposure N + D*C, leverage (N + D*C)*S/T and gap |lev - L|.
FixedCountSolve ==
    (op = "calculateWithContracts" /\ PositiveArgs) => FixedCountOutcome

\* C13 amended: the same for finite positive S, O, D, T, L and a finite C.
FixedCountSolveFinite ==
    (op = "calculateWithContracts" /\ PositiveArgs /\ FiniteArgs) => FixedCountOutcome

\* the boundary O*C = T: valid, with no shares
FixedCountSolveWitness ==
    /\ op = "calculateWithContracts"
    /\ PositiveArgs /\ FiniteArgs
    /\ Mul(ArgO, numberOfContracts) = ArgT
    /\ result.isValid
    /\ result.numberOfShares = Zero

\* C19 as stated: every result of calculateWithContracts reports the contract
\* count it was given, valid or not.
ReportsRequestedCount ==
    (op = "calculateWithContracts") => result.numberOfContracts = numberOfContracts

\* C19 amended: the count given is reported whenever S, O, D, T, L pass the
\* input validation (valid or not); when they do not, 0 is reported.
ReportsRequestedCountValidated ==
    (op = "calculateWithContracts") =>
        result.numberOfContracts = IF PositiveArgs THEN numberOfContracts ELSE Zero

\* an invalid result, for a cost above the equity, that reports the count given
ReportsRequestedCountWitness ==
    /\ op = "calculateWithContracts"
    /\ result.validationMessage = MsgContractCost
    /\ result.numberOfContracts = numberOfContracts
    /\ numberOfContracts # Zero

\* the arguments of the exact solve are finite
FiniteSolveArgs ==
    /\ IsFinite(ArgS) /\ IsFinite(ArgO) /\ IsFinite(ArgD)
    /\ IsFinite(ArgT) /\ IsFinite(ArgL)

\* the reasons calculateForOption gives before it looks at the total cost
EarlierReasons == {MsgInvalidInput, MsgDenominator, MsgShort, MsgNegativeShares}

\* C25: calculateForOption never returns the exceeds-budget reason; for finite
\* inputs that pass the invalid-inputs, denominator, C < 0 and N < 0 checks the
\* total cost S*N + O*C equals T and the result is valid.
BudgetCheckNeverFires ==
    (op = "calculateForOption") =>
        /\ result.validationMessage # MsgTotalCost
        /\ (FiniteSolveArgs /\ result.validationMessage \notin EarlierReasons)
              => (result.isValid /\ result.totalCost = ArgT)

\* a solve with contracts and shares both positive reached the budget check
BudgetCheckNeverFiresWitness ==
    /\ op = "calculateForOption"
    /\ FiniteSolveArgs
    /\ result.isValid
    /\ Gt(result.numberOfContracts, Zero)
    /\ Gt(result.numberOfShares, Zero)
    /\ result.totalCost = ArgT

\* S*D - O >= 0.01
DenominatorPositive == Ge(Sub(Mul(ArgS, ArgD), ArgO), Tolerance)

\* the outcome the feasibility characterisation predicts
FeasibilityOutcome ==
    IF Lt(ArgL, Num(1))
    THEN ~result.isValid /\ result.validationMessage = MsgShort
    ELSE IF Le(Mul(ArgL, ArgO), Mul(ArgS, ArgD))
    THEN result.isValid
    ELSE ~result.isValid /\ result.validationMessage = MsgNegativeShares

\* C26 as stated: for positive inputs with S*D - O >= 0.01, the exact solve
\* is invalid (short position) when L < 1, valid when L >= 1 and L*O <= S*D,
\* and invalid (negative shares) when L >= 1 and L*O > S*D.
Feasibility ==
    (op = "calculateForOption" /\ PositiveArgs /\ DenominatorPositive)
        => FeasibilityOutcome

\* C26 amended: the same for finite positive inputs.
FeasibilityFinite ==
    (op = "calculateForOption" /\ PositiveArgs /\ FiniteSolveArgs /\ DenominatorPositive)
        => FeasibilityOutcome

\* the boundary L*O = S*D: all the equity goes into contracts, no shares
FeasibilityWitness ==
    /\ op = "calculateForOption"
    /\ PositiveArgs /\ FiniteSolveArgs /\ DenominatorPositive
    /\ Mul(ArgL, ArgO) = Mul(ArgS, ArgD)
    /\ result.isValid
    /\ result.numberOfShares = Zero

----------------------------------------------------------------------------
(* Properties of the optimizer (checked under SpecOptimizer) *)

\* results holds the output of calculateAllOptions for the current inputs
Computed == op = "calculateAllOptions"

\* C3: every element of calculateAllOptions' output is valid and has an
\* integer numberOfContracts greater than 0.
OnlyValidWholeContracts ==
    Computed =>
        \A i \in DOMAIN results :
            /\ results[i].isValid
            /\ IsInteger(results[i].numberOfContracts)
            /\ results[i].numberOfContracts[1] > 0

\* some filtered contract contributed results, another candidate was left out
OnlyValidWholeContractsWitness ==
    /\ Computed
    /\ Len(results) >= 2
    /\ Len(results) < 2 * Len(filteredContracts(contracts, inputs))

\* C4: every result of calculateAllOptions refers to a call of the input list
\* whose expiry is the selected one and whose delta lies in
\* [deltaMin, deltaMax]; a contract failing any of the three has no result.
FilterCorrectness ==
    Computed =>
        /\ \A i \in DOMAIN results :
              LET c == results[i].contract
              IN  /\ \E k \in DOMAIN contracts : contracts[k] = c
                  /\ c.type = "call"
                  /\ c.expiry = inputs.selectedExpiry
                  /\ ~Lt(c.delta, inputs.deltaMin)
                  /\ ~Gt(c.delta, inputs.deltaMax)
        /\ \A k \in DOMAIN contracts :
              (\/ contracts[k].type # "call"
               \/ contracts[k].expiry # inputs.selectedExpiry
               \/ Lt(contracts[k].delta, inputs.deltaMin)
               \/ Gt(contracts[k].delta, inputs.deltaMax))
              => \A i \in DOMAIN results : results[i].contract # contracts[k]

\* a put of the selected expiry and delta range is passed over while another
\* contract of the list yields results
FilterCorrectnessWitness ==
    /\ Computed
    /\ results # <<>>
    /\ \E k \in DOMAIN contracts :
          /\ contracts[k].type = "put"
          /\ contracts[k].expiry = inputs.selectedExpiry
          /\ Ge(contracts[k].delta, inputs.deltaMin)
          /\ Le(contracts[k].delta, inputs.deltaMax)

\* the results in the order the forEach generated them
Generated == collectResults(filteredContracts(contracts, inputs), stock, inputs)

SameKeys(a, b) ==
    /\ a.numberOfContracts = b.numberOfContracts
    /\ a.leverageDifference = b.leverageDifference

\* C5: adjacent results are ordered by numberOfContracts, then by
\* leverageDifference; results equal on both keys keep their generation order.
SortOrder ==
    Computed =>
        /\ \A i \in 1..(Len(results) - 1) :
              LET a == results[i]
                  b == results[i + 1]
              IN  \/ Lt(a.numberOfContracts, b.numberOfContracts)
                  \/ /\ a.numberOfContracts = b.numberOfContracts
                     /\ Le(a.leverageDifference, b.leverageDifference)
        /\ Len(results) = Len(Generated)
        /\ \A i \in DOMAIN results :
              SelectSeq(results, LAMBDA r : SameKeys(r, results[i]))
                = SelectSeq(Generated, LAMBDA r : SameKeys(r, results[i]))

\* the sort moved something, and two results tie on the contract count with
\* different leverage differences
SortOrderWitness ==
    /\ Computed
    /\ results # Generated
    /\ \E i \in 1..(Len(results) - 1) :
          /\ results[i].numberOfContracts = results[i + 1].numberOfContracts
          /\ Lt(results[i].leverageDifference, results[i + 1].leverageDifference)

Rankable(r) == r.isValid /\ Gt(r.numberOfContracts, Zero)

Picked == op = "getOptimalContract"

\* C6: for any list, sorted or not, getOptimalContract returns a valid result
\* with numberOfContracts > 0 that has the fewest contracts and, among those,
\* the smallest leverageDifference.
PicksMinimum ==
    (Picked /\ \E i \in DOMAIN results : Rankable(results[i])) =>
        /\ optimal # Null
        /\ Rankable(optimal)
        /\ \A i \in DOMAIN results :
              Rankable(results[i]) =>
                  \/ Lt(optimal.numberOfContracts, results[i].numberOfContracts)
                  \/ /\ optimal.numberOfContracts = results[i].numberOfContracts
                     /\ Le(optimal.leverageDifference, results[i].leverageDifference)

\* C7: getOptimalContract returns null exactly when the list has no valid
\* result with numberOfContracts > 0, and otherwise a valid element of the
\* list with numberOfContracts > 0; on the output of calculateAllOptions it
\* is null iff that output is empty and otherwise its first element.
NeverPicksUnrankable ==
    Picked =>
        /\ (optimal = Null) <=> (\A i \in DOMAIN results : ~Rankable(results[i]))
        /\ (optimal # Null) =>
              /\ \E i \in DOMAIN results : results[i] = optimal
              /\ optimal.isValid
              /\ Gt(optimal.numberOfContracts, Zero)
        /\ (results = calculateAllOptions(contracts, stock, inputs)) =>
              optimal = IF results = <<>> THEN Null ELSE results[1]

\* a result is returned from a list whose first element is invalid or has no
\* contracts
NeverPicksUnrankableWitness ==
    /\ Picked
    /\ optimal # Null
    /\ ~Rankable(results[1])

\* the exact solve of a contract under the current quote and parameters
ExactOf(c) == calculateForOption(c, stock.price, inputs.totalEquity, inputs.leverage)

\* how often x occurs in the sequence seq
Occurrences(seq, x) == Cardinality({ i \in DOMAIN seq : seq[i] = x })

\* C14: the results a contract contributes have a contract count in
\* {floor(C*), ceil(C*)} of its valid exact solve C*, greater than 0, at most
\* one result per value for each occurrence of the contract in the list (so
\* one when C* is an integer); a contract whose exact solve is invalid
\* contributes none.
CandidateGeneration ==
    Computed =>
        \A i \in DOMAIN results :
            LET c == results[i].contract
                v == results[i].numberOfContracts
                exact == ExactOf(c)
            IN  /\ exact.isValid
                /\ v \in {Floor(exact.numberOfContracts), Ceil(exact.numberOfContracts)}
                /\ Gt(v, Zero)
                /\ Cardinality({ j \in DOMAIN results :
                                   /\ results[j].contract = c
                                   /\ results[j].numberOfContracts = v })
                     <= Occurrences(contracts, c)

\* one contract with an integer exact solve contributes exactly one result
CandidateGenerationWitness ==
    /\ Computed
    /\ Len(contracts) = 1
    /\ Len(results) = 1
    /\ ExactOf(contracts[1]).numberOfContracts = results[1].numberOfContracts

Malformed(c) == ~Gt(c.premium, Zero) \/ ~Gt(c.delta, Zero)

\* C15: a contract with a non-positive premium or delta contributes no result,
\* and the output is the one calculateAllOptions returns for the list without
\* the malformed contracts.
GracefulDegradation ==
    Computed =>
        /\ \A i \in DOMAIN results : ~Malformed(results[i].contract)
        /\ results = calculateAllOptions(SelectSeq(contracts, LAMBDA c : ~Malformed(c)),
                                         stock, inputs)

\* a malformed contract went through the filter next to one that has results
GracefulDegradationWitness ==
    /\ Computed
    /\ results # <<>>
    /\ \E k \in DOMAIN contracts :
          Malformed(contracts[k]) /\ passesFilter(contracts[k], inputs)

\* the contract lists whose orderings are compared: two contracts with equal
\* premium and delta, one dearer, one of lower delta, one put
InitOrder ==
    /\ contracts \in SeqsUpTo({ c \in Catalogue : c.symbol \in {"A", "A2", "B", "C", "P"} },
                               MaxContracts)
    /\ stock \in [price : {Rat(1, 10), Rat(1, 5)}]
    /\ inputs \in { UserInputs(T, L, E1, <<Rat(3, 10), Rat(9, 10)>>) :
                      T \in {Num(10), Num(14)}, L \in {Rat(7, 4), Num(3)} }
    /\ numberOfContracts = Zero
    /\ result = Null
    /\ results = <<>>
    /\ optimal = Null
    /\ op = "init"
    /\ CtrlIdle

SpecOrder == InitOrder /\ [][CalculateAllOptions]_vars

\* the orderings of a sequence
Orderings(seq) ==
    { [i \in DOMAIN seq |-> seq[p[i]]] : p \in Permutations(DOMAIN seq) }

\* C17 as stated: every ordering of the contract list gives the same output
\* list, in the same order.
OrderIndependence ==
    Computed =>
        \A p \in Orderings(contracts) : calculateAllOptions(p, stock, inputs) = results

\* C17 amended: every ordering of the contract list gives the same results
\* with the same sequence of (numberOfContracts, leverageDifference) keys;
\* only results that tie on both keys may change places.
OrderIndependenceUpToTies ==
    Computed =>
        \A p \in Orderings(contracts) :
            LET other == calculateAllOptions(p, stock, inputs)
            IN  /\ Len(other) = Len(results)
                /\ \A i \in DOMAIN results :
                      /\ SameKeys(other[i], results[i])
                      /\ Occurrences(other, results[i]) = Occurrences(results, results[i])

\* two contracts whose results tie on both keys: the other ordering of the
\* list gives another output
OrderIndependenceWitness ==
    /\ Computed
    /\ \E p \in Orderings(contracts) : calculateAllOptions(p, stock, inputs) # results

\* the contracts passing the expiry and delta filter
PassingExpiryAndDelta ==
    SelectSeq(contracts, LAMBDA c : /\ c.expiry = inputs.selectedExpiry
                                    /\ Ge(c.delta, inputs.deltaMin)
                                    /\ Le(c.delta, inputs.deltaMax))

\* the contracts among seq whose exact solve is valid with floor(C*) >= 1
EachHasFloor(seq) ==
    \A k \in DOMAIN seq :
        /\ ExactOf(seq[k]).isValid
        /\ Ge(Floor(ExactOf(seq[k]).numberOfContracts), Num(1))

\* C18 as stated: at least one result per contract passing the expiry and
\* delta filter when each of them has a floor candidate, and at most two
\* results per such contract.
ResultCountBounds ==
    Computed =>
        /\ EachHasFloor(PassingExpiryAndDelta)
              => Len(results) >= Len(PassingExpiryAndDelta)
        /\ Len(results) <= 2 * Len(PassingExpiryAndDelta)

\* the calls passing the expiry and delta filter
PassingCalls == SelectSeq(PassingExpiryAndDelta, LAMBDA c : c.type = "call")

\* C18 amended: at least one result per call passing the expiry and delta
\* filter when each of them has a floor candidate, and at most two results
\* per such call; a put contributes none.
ResultCountBoundsCalls ==
    Computed =>
        /\ EachHasFloor(PassingCalls) => Len(results) >= Len(PassingCalls)
        /\ Len(results) <= 2 * Len(PassingCalls)

\* two calls, each with a floor candidate, and three results
ResultCountBoundsWitness ==
    /\ Computed
    /\ EachHasFloor(PassingCalls)
    /\ Len(PassingCalls) = 2
    /\ Len(results) = 3

\* the stored results are the ones computed from the loaded data and the
\* current inputs
Current ==
    /\ optionsData # Null
    /\ calculationResults
          = calculateAllOptions(optionsData.contracts, optionsData.stock,
                                paramsOf(userInputs))

\* C20: after a change of an allocation parameter while options data is
\* loaded, the stored results eventually equal
\* calculateAllOptions(optionsData.contracts, optionsData.stock, userInputs)
\* unless the user acts again.
RecomputeOnChange ==
    (op = "changeParameter" /\ optionsData # Null)
        ~> (Current \/ op # "changeParameter")

\* S*D - O of a contract under the quote
Edge(c) ==
    Sub(Mul(stock.price, Mul(c.delta, Num(ContractMultiplier))),
        Mul(c.premium, Num(ContractMultiplier)))

\* C27: a result of a contract with S*D > O has leverage 1 + C*(S*D - O)/T;
\* the floor candidate's leverage is <= the target L, the ceiling candidate's
\* is >= L, and the leverage difference is |C - C*|*(S*D - O)/T, strictly
\* less than (S*D - O)/T, C* being the exact solve.
LeverageBracketing ==
    Computed =>
        \A i \in DOMAIN results :
            LET r == results[i]
                C == r.numberOfContracts
                exact == ExactOf(r.contract).numberOfContracts
                T == inputs.totalEquity
                unit == Div(Edge(r.contract), T)
            IN  Gt(Edge(r.contract), Zero) =>
                  /\ r.leverage = Add(Num(1), Mul(C, unit))
                  /\ (C = Floor(exact)) => Le(r.leverage, inputs.leverage)
                  /\ (C = Ceil(exact)) => Ge(r.leverage, inputs.leverage)
                  /\ r.leverageDifference = Mul(Abs(Sub(C, exact)), unit)
                  /\ Lt(r.leverageDifference, unit)

\* a contract gave both candidates, one under and one over the target
LeverageBracketingWitness ==
    /\ Computed
    /\ \E i, j \in DOMAIN results :
          /\ results[i].contract = results[j].contract
          /\ Gt(Edge(results[i].contract), Zero)
          /\ Lt(results[i].leverage, inputs.leverage)
          /\ Gt(results[j].leverage, inputs.leverage)

\* C28: with a target leverage of 1 the exact solve of every contract that
\* passes the filter (positive premium and delta, |S*D - O| >= 0.01) is valid
\* with 0 contracts and T/S shares, yet calculateAllOptions returns the empty
\* list and getOptimalContract returns null.
UnleveragedYieldsNothing ==
    (inputs.leverage = Num(1)) =>
        /\ Computed => results = <<>>
        /\ Computed =>
              \A k \in DOMAIN contracts :
                  (/\ passesFilter(contracts[k], inputs)
                   /\ ~Malformed(contracts[k])
                   /\ ~denominatorTooSmall(Edge(contracts[k])))
                      => /\ ExactOf(contracts[k]).isValid
                         /\ ExactOf(contracts[k]).numberOfContracts = Zero
                         /\ ExactOf(contracts[k]).numberOfShares
                              = Div(inputs.totalEquity, stock.price)
        /\ Picked => optimal = Null

\* the list was computed for a contract whose all-shares allocation is valid
UnleveragedYieldsNothingWitness ==
    /\ Computed
    /\ inputs.leverage = Num(1)
    /\ results = <<>>
    /\ \E k \in DOMAIN contracts :
          /\ passesFilter(contracts[k], inputs)
          /\ ExactOf(contracts[k]).isValid
          /\ ExactOf(contracts[k]).numberOfContracts = Zero

\* C21: a fetchAndCalculate that passes the validation leaves loading true
\* and error null while the fetch is awaited; one that fails it, and every
\* settled fetch, leaves loading false: loading is never stuck at true.
LoadingReleased ==
    /\ [](op = "handleFetchData" =>
            IF validationError(userInputs) = NoError
            THEN loading /\ error = NoError /\ pending = <<userInputs>>
            ELSE ~loading /\ error = validationError(userInputs))
    /\ [](op \in {"fetchResolved", "fetchRejected"} => ~loading)
    /\ (loading ~> ~loading)

\* a fetch was awaited and rejected, and loading is false again
LoadingReleasedWitness ==
    /\ op = "fetchRejected"
    /\ ~loading
    /\ error = MsgFetchFailed

\* the user inputs fetchAndCalculate refuses
Refused(ui) ==
    \/ ui.stockSymbol = ""
    \/ Le(ui.totalEquity, Zero)
    \/ Le(ui.leverage, Zero)

\* the message for the first input that is refused
RefusalMessage(ui) ==
    CASE ui.stockSymbol = "" -> MsgNoSymbol
      [] ui.stockSymbol # "" /\ Le(ui.totalEquity, Zero) -> MsgNoEquity
      [] OTHER -> MsgNoLeverage

\* C22: a fetchAndCalculate on an empty symbol, a total equity <= 0 or a
\* leverage <= 0 starts no fetch, sets error to the message of that input and
\* leaves optionsData and calculationResults unchanged; a rejected fetch sets
\* error to its message and leaves both unchanged as well.
FetchFailuresKeepData ==
    [][ /\ (op' = "handleFetchData" /\ Refused(userInputs))
            => /\ pending' = pending
               /\ ~loading'
               /\ error' = RefusalMessage(userInputs)
               /\ UNCHANGED <<optionsData, calculationResults>>
        /\ (op' = "fetchRejected")
            => /\ error' = MsgFetchFailed
               /\ UNCHANGED <<optionsData, calculationResults>> ]_vars

\* the leverage was refused while data and results of an earlier fetch are
\* there
FetchFailuresKeepDataWitness ==
    /\ op = "handleFetchData"
    /\ error = MsgNoLeverage
    /\ optionsData # Null
    /\ calculationResults # <<>>

\* C23: recalculate(null) changes nothing; recalculate with data and an empty
\* selectedExpiry sets error to null and calculationResults to the empty
\* list; no call changes optionsData, userInputs or loading.
RecalculateFrame ==
    [][ /\ (op' = "recalculate(null)") => UNCHANGED ctrlVars
        /\ (op' = "recalculate" /\ userInputs.selectedExpiry = "")
              => (error' = NoError /\ calculationResults' = <<>>)
        /\ (op' \in {"recalculate", "recalculate(null)"})
              => UNCHANGED <<optionsData, userInputs, loading>> ]_vars

\* with no expiry selected, an error and a result list were cleared
RecalculateFrameWitness ==
    /\ op = "recalculate"
    /\ userInputs.selectedExpiry = ""
    /\ error = NoError
    /\ calculationResults = <<>>
    /\ optionsData = Null

NoOverlappingWork ==
    /\ [](Len(pending) <= 1)
    /\ [](loading <=> pending # <<>>)
    /\ [][ /\ loading => /\ op' \in {"fetchResolved", "fetchRejected"}
                         /\ UNCHANGED userInputs
           /\ (op' = "fetchResolved")
                 => /\ pending = <<userInputs>>
                    /\ calculationResults' = fetchedResults(optionsData', userInputs') ]_vars

\* a fetch started with an expiry selected resolved and stored results
NoOverlappingWorkWitness ==
    /\ op = "fetchResolved"
    /\ userInputs.selectedExpiry # ""
    /\ calculationResults # <<>>
    /\ calculationResults = fetchedResults(optionsData, userInputs)

\* the expiry dates of the loaded options data
LoadedExpiryDates == { optionsData.expiryDates[i] : i \in DOMAIN optionsData.expiryDates }

\* the last step called calculateAllOptions: a resolved fetch with an expiry
\* selected, or a recalculate by the show-results button
InvokedOptimizer ==
    \/ op = "fetchResolved" /\ userInputs.selectedExpiry # ""
    \/ op = "handleShowResults"

\* C30: whenever fetchAndCalculate or recalculate calls calculateAllOptions,
\* the selected expiry is one of the expiry dates of the options data used.
ExpiryConsistency ==
    InvokedOptimizer => userInputs.selectedExpiry \in LoadedExpiryDates

====
